---- MODULE Spec2Model ----
(***************************************************************************)
(* Model of the two OpenClaw skill wrappers of monarch-automation          *)
(* (skills/monarch-report/impl.js and skills/monarch-transactions/impl.js) *)
(* and of the two computations of the Python scripts they shell out to.    *)
(*                                                                         *)
(* A wrapper module is loaded once into a Node.js process: its parameters  *)
(* are resolved from process.env / process.argv at load time, and every    *)
(* later call of the exported run() finds an interpreter, spawns the       *)
(* script once with execSync and turns the child's result into a return    *)
(* value or a thrown Error.                                                *)
(***************************************************************************)
EXTENDS Integers, Sequences, FiniteSets, TLC

(***************************************************************************)
(* JavaScript values.  Every value is a record of the same shape so that   *)
(* any two values can be compared.                                         *)
(*   t     : "undefined" "null" "true" "false" "num" "str" "arr" "obj"     *)
(*   n     : the number (t = "num")                                        *)
(*   s     : the text (t = "str")                                          *)
(*   items : the elements (t = "arr") or the members, records              *)
(*           [key, val] in insertion order (t = "obj")                     *)
(***************************************************************************)
JSV(t, n, s, items) == [t |-> t, n |-> n, s |-> s, items |-> items]
Undefined == JSV("undefined", 0, "", <<>>)
JSNull    == JSV("null", 0, "", <<>>)
JSTrue    == JSV("true", 0, "", <<>>)
JSFalse   == JSV("false", 0, "", <<>>)
JSNum(n)  == JSV("num", n, "", <<>>)
JSStr(s)  == JSV("str", 0, s, <<>>)
JSArr(xs) == JSV("arr", 0, "", xs)
JSObj(ms) == JSV("obj", 0, "", ms)
Member(k, v) == [key |-> k, val |-> v]

\* ToBoolean: what `x || y` and `if (x)` test.
Truthy(v) ==
    CASE v.t \in {"undefined", "null", "false"} -> FALSE
      [] v.t = "num" -> v.n # 0
      [] v.t = "str" -> v.s # ""
      [] OTHER -> TRUE

\* a || b
OrElse(a, b) == IF Truthy(a) THEN a ELSE b

RECURSIVE LastMember(_, _, _)
LastMember(ms, k, i) ==
    IF i = 0 THEN Undefined
    ELSE IF ms[i].key = k THEN ms[i].val
    ELSE LastMember(ms, k, i - 1)

\* v.k for a value that is neither null nor undefined (those throw a
\* TypeError, see PropThrows).  Primitives and arrays have no such own
\* property for the keys used here ("error", "payload").
GetProp(v, k) ==
    IF v.t = "obj" THEN LastMember(v.items, k, Len(v.items)) ELSE Undefined

PropThrows(v) == v.t \in {"undefined", "null"}

RECURSIVE JoinText(_, _)
JoinText(parts, sep) ==
    IF Len(parts) = 0 THEN ""
    ELSE IF Len(parts) = 1 THEN parts[1]
    ELSE parts[1] \o sep \o JoinText(Tail(parts), sep)

RECURSIVE MapToStr(_)
\* String(v), as `new Error(v)` and template literals apply it.
JSToString(v) ==
    CASE v.t = "undefined" -> "undefined"
      [] v.t = "null" -> "null"
      [] v.t = "true" -> "true"
      [] v.t = "false" -> "false"
      [] v.t = "num" -> ToString(v.n)
      [] v.t = "str" -> v.s
      [] v.t = "arr" -> JoinText(MapToStr(v.items), ",")
      [] OTHER -> "[object Object]"
MapToStr(xs) ==
    IF Len(xs) = 0 THEN <<>>
    ELSE <<IF xs[1].t \in {"undefined", "null"} THEN "" ELSE JSToString(xs[1])>>
         \o MapToStr(Tail(xs))

(***************************************************************************)
(* Text written by a child process is a sequence of lexemes [k, s, n]:     *)
(*   "ws" whitespace, "punct" one of { } [ ] : , , "str" a quoted string   *)
(*   (s is its content), "num" a number (n its value), "lit" one of        *)
(*   null true false, "junk" any other text.                               *)
(***************************************************************************)
Lex(k, s, n) == [k |-> k, s |-> s, n |-> n]
WS      == Lex("ws", "\n", 0)
SP      == Lex("ws", " ", 0)
P(c)    == Lex("punct", c, 0)
S(x)    == Lex("str", x, 0)
N(i)    == Lex("num", ToString(i), i)
L(w)    == Lex("lit", w, 0)
Junk(x) == Lex("junk", x, 0)

LexText(l) == IF l.k = "str" THEN "\"" \o l.s \o "\"" ELSE l.s

RECURSIVE Text(_)
Text(ls) == IF Len(ls) = 0 THEN "" ELSE LexText(ls[1]) \o Text(Tail(ls))

RECURSIVE TrimStart(_)
TrimStart(ls) ==
    IF Len(ls) > 0 /\ ls[1].k = "ws" THEN TrimStart(Tail(ls)) ELSE ls

RECURSIVE TrimEnd(_)
TrimEnd(ls) ==
    IF Len(ls) > 0 /\ ls[Len(ls)].k = "ws"
    THEN TrimEnd(SubSeq(ls, 1, Len(ls) - 1))
    ELSE ls

\* String.prototype.trim
Trim(ls) == TrimEnd(TrimStart(ls))

(***************************************************************************)
(* JSON.parse over lexemes: a recursive-descent parser.  A parse step      *)
(* returns [ok, val, next]: next is the index of the first lexeme not      *)
(* consumed.                                                               *)
(***************************************************************************)
Fail == [ok |-> FALSE, val |-> Undefined, next |-> 0]
Ok(v, i) == [ok |-> TRUE, val |-> v, next |-> i]

RECURSIVE SkipWs(_, _)
SkipWs(ls, i) ==
    IF i <= Len(ls) /\ ls[i].k = "ws" THEN SkipWs(ls, i + 1) ELSE i

IsPunct(ls, i, c) == i <= Len(ls) /\ ls[i].k = "punct" /\ ls[i].s = c

RECURSIVE SetMember(_, _, _, _)
\* A repeated key keeps its first position and takes the last value.
SetMember(ms, k, v, i) ==
    IF i > Len(ms) THEN Append(ms, Member(k, v))
    ELSE IF ms[i].key = k THEN [ms EXCEPT ![i] = Member(k, v)]
    ELSE SetMember(ms, k, v, i + 1)

RECURSIVE ParseValue(_, _)
RECURSIVE ParseElems(_, _, _)
RECURSIVE ParseMembers(_, _, _)

ParseValue(ls, i0) ==
    LET i == SkipWs(ls, i0) IN
    IF i > Len(ls) THEN Fail
    ELSE LET l == ls[i] IN
         CASE l.k = "lit" /\ l.s = "null"  -> Ok(JSNull, i + 1)
           [] l.k = "lit" /\ l.s = "true"  -> Ok(JSTrue, i + 1)
           [] l.k = "lit" /\ l.s = "false" -> Ok(JSFalse, i + 1)
           [] l.k = "num" -> Ok(JSNum(l.n), i + 1)
           [] l.k = "str" -> Ok(JSStr(l.s), i + 1)
           [] l.k = "punct" /\ l.s = "[" ->
                LET j == SkipWs(ls, i + 1) IN
                IF IsPunct(ls, j, "]") THEN Ok(JSArr(<<>>), j + 1)
                ELSE ParseElems(ls, i + 1, <<>>)
           [] l.k = "punct" /\ l.s = "{" ->
                LET j == SkipWs(ls, i + 1) IN
                IF IsPunct(ls, j, "}") THEN Ok(JSObj(<<>>), j + 1)
                ELSE ParseMembers(ls, i + 1, <<>>)
           [] OTHER -> Fail

ParseElems(ls, i, acc) ==
    LET r == ParseValue(ls, i) IN
    IF ~r.ok THEN Fail
    ELSE LET j == SkipWs(ls, r.next) IN
         IF IsPunct(ls, j, ",") THEN ParseElems(ls, j + 1, Append(acc, r.val))
         ELSE IF IsPunct(ls, j, "]") THEN Ok(JSArr(Append(acc, r.val)), j + 1)
         ELSE Fail

ParseMembers(ls, i0, acc) ==
    LET i == SkipWs(ls, i0) IN
    IF ~(i <= Len(ls) /\ ls[i].k = "str") THEN Fail
    ELSE LET c == SkipWs(ls, i + 1) IN
         IF ~IsPunct(ls, c, ":") THEN Fail
         ELSE LET r == ParseValue(ls, c + 1) IN
              IF ~r.ok THEN Fail
              ELSE LET j   == SkipWs(ls, r.next)
                       ms  == SetMember(acc, ls[i].s, r.val, 1)
                   IN  IF IsPunct(ls, j, ",") THEN ParseMembers(ls, j + 1, ms)
                       ELSE IF IsPunct(ls, j, "}") THEN Ok(JSObj(ms), j + 1)
                       ELSE Fail

\* JSON.parse(text): [ok, val]; ok = FALSE is the SyntaxError it throws.
JSONParse(ls) ==
    LET r == ParseValue(ls, 1) IN
    IF r.ok /\ SkipWs(ls, r.next) > Len(ls)
    THEN [ok |-> TRUE, val |-> r.val]
    ELSE [ok |-> FALSE, val |-> Undefined]

(***************************************************************************)
(* The process a wrapper module is loaded into.                            *)
(***************************************************************************)
Skills == {"report", "transactions"}

\* The environment variables each module reads.
EnvNames(sk) == IF sk = "report" THEN {"THRESHOLD"} ELSE {"CATEGORY", "MONTH"}

\* Values the host may give an environment variable: unset, empty, a value.
EnvValue(name) ==
    CASE name = "THRESHOLD" -> "100"
      [] name = "CATEGORY"  -> "Dining Out"
      [] OTHER              -> "2026-01"
EnvChoices(name) == {Undefined, JSStr(""), JSStr(EnvValue(name))}

\* process.argv: node, the script, then at most MaxArgs positional arguments.
MaxArgs == 2
ArgValue(sk, i) ==
    IF i = 1 THEN (IF sk = "report" THEN "75" ELSE "Natural Gas") ELSE "2026-02"
ArgChoices(sk, i) == IF i = 1 THEN {"", ArgValue(sk, i)} ELSE {ArgValue(sk, i)}
Argvs(sk) ==
    UNION {
      {<<"node", "impl.js">> \o a :
          a \in {b \in [1..n -> {"", ArgValue(sk, 1), ArgValue(sk, 2)}] :
                    \A i \in 1..n : b[i] \in ArgChoices(sk, i)}}
      : n \in 0..MaxArgs }

\* process.argv[i] (0-based): undefined past the end.
ArgvAt(av, i) == IF i + 1 <= Len(av) THEN JSStr(av[i + 1]) ELSE Undefined

PROJECT_ROOT == "/monarch-automation"
ScriptName(sk) ==
    IF sk = "report" THEN "over_budget_report.py" ELSE "category_transactions.py"
SCRIPT_PATH(sk) == PROJECT_ROOT \o "/" \o ScriptName(sk)
SESSION_PATH == PROJECT_ROOT \o "/session.json"

\* const threshold = process.env.THRESHOLD || process.argv[2] || "50";
ResolveThreshold(e, av) ==
    OrElse(OrElse(e["THRESHOLD"], ArgvAt(av, 2)), JSStr("50"))
\* Mutant: the positional argument is consulted before the environment.
ResolveCategoryArgFirst(e, av) ==
    OrElse(OrElse(ArgvAt(av, 2), e["CATEGORY"]), JSStr(""))

\* const category = process.env.CATEGORY || process.argv[2] || "";
ResolveCategory(e, av) ==
    OrElse(OrElse(e["CATEGORY"], ArgvAt(av, 2)), JSStr(""))
\* const month = process.env.MONTH || process.argv[3] || "";
ResolveMonth(e, av) ==
    OrElse(OrElse(e["MONTH"], ArgvAt(av, 3)), JSStr(""))

(***************************************************************************)
(* findPython                                                              *)
(***************************************************************************)
\* The venv candidates of the transactions wrapper, in the order tried.
VenvCandidates ==
    << PROJECT_ROOT \o "/.venv/bin/python",
       PROJECT_ROOT \o "/.venv/Scripts/python" >>
\* The system candidates, in the order probed.
SystemCandidates == <<"python3", "python">>

\* What `<candidate> --version` can do: throw (not found, non-zero exit) or
\* return its stdout, a sequence of characters.
Python3Out == <<"P","y","t","h","o","n"," ","3",".","1","1","\n">>
Python2Out == <<"P","y","t","h","o","n"," ","2",".","7","\n">>
ProbeResults ==
    { [threw |-> TRUE,  out |-> <<>>],
      [threw |-> FALSE, out |-> Python3Out],
      [threw |-> FALSE, out |-> Python2Out],
      [threw |-> FALSE, out |-> <<>>] }

\* String.prototype.includes
Includes(hay, needle) ==
    \E i \in 0..(Len(hay) - Len(needle)) :
        SubSeq(hay, i + 1, i + Len(needle)) = needle

ProbeAccepts(r) == ~r.threw /\ Includes(r.out, <<"P","y","t","h","o","n"," ","3">>)

RECURSIVE FirstExisting(_, _, _)
\* Mutant: the candidates are tried from the last one to the first.
FirstExistingReversed(cands, exists, i) ==
    LET j == Len(cands) + 1 - i IN
    IF i > Len(cands) THEN ""
    ELSE IF cands[j] \in exists THEN cands[j]
    ELSE FirstExisting(cands, exists, i + 1)

\* The first candidate that fs.existsSync finds, "" when there is none.
FirstExisting(cands, exists, i) ==
    IF i > Len(cands) THEN ""
    ELSE IF cands[i] \in exists THEN cands[i]
    ELSE FirstExisting(cands, exists, i + 1)

(***************************************************************************)
(* The result of execSync(command, {timeout: 30_000}).                     *)
(***************************************************************************)
TIMEOUT_MS == 30000

Str(ls) == [def |-> TRUE, text |-> ls]
NoStr   == [def |-> FALSE, text |-> <<>>]
\* (s || "")
TextOrEmpty(s) == IF s.def /\ Len(s.text) > 0 THEN s.text ELSE <<>>

ErrObj(msg, code) ==
    <<P("{"), S("error"), P(":"), SP, S(msg), P(","), SP,
      S("code"), P(":"), SP, S(code), P("}")>>

Stdouts ==
    { <<>>,
      <<WS>>,
      ErrObj("Session file not found: session.json", "SESSION_ERROR") \o <<WS>>,
      <<WS, SP>> \o ErrObj("Session appears to be expired", "SESSION_EXPIRED") \o <<WS>>,
      <<P("{"), S("code"), P(":"), S("API_ERROR"), P("}"), WS>>,
      ErrObj("", "DEPENDENCY_MISSING"),
      <<P("{"), S("error"), P(":"), S("Category not found"), P(","),
        S("code"), P(":"), S("CATEGORY_NOT_FOUND"), P(","),
        S("available_categories"), P(":"),
        P("["), S("Dining Out"), P(","), S("Rent"), P("]"), P("}"), WS>>,
      <<L("null"), WS>>,
      <<N(0)>>,
      <<L("false")>>,
      <<S("")>>,
      <<Junk("Traceback (most recent call last):"), WS>>,
      <<P("{"), S("error"), P(":")>>,
      <<P("{"), S("month"), P(":"), S("2026-02"), P(","),
        S("over_budget"), P(":"), P("["), P("]"), P(","),
        S("total_overage"), P(":"), N(0), P("}"), WS>> }

Stderrs == { <<>>, <<Junk("ModuleNotFoundError: No module named 'monarchmoney'"), WS>> }

ExitCodes == {1}

\* status: the exit status (null when the child was killed or never ran);
\* timedOut: the timeout killed it (err.code = "ETIMEDOUT").
Child(status, timedOut, out, err) ==
    [status |-> status, timedOut |-> timedOut, stdout |-> out, stderr |-> err]

\* What the script would do left alone: exit with a status after `ms`
\* milliseconds, having written out and err; or never start (spawn failure).
Durations == {1000, 45000}
Behaviours ==
    [started : {TRUE}, status : {0} \cup ExitCodes, ms : Durations,
     out : Stdouts, err : Stderrs]
    \cup [started : {FALSE}, status : {0}, ms : {0}, out : {<<>>}, err : {<<>>}]

\* execSync(command, {timeout}): a child still running after `timeout`
\* milliseconds is killed, and the error then has status null.
ExecSync(b, timeout) ==
    IF ~b.started THEN Child(JSNull, FALSE, NoStr, NoStr)
    ELSE IF b.ms > timeout THEN Child(JSNull, TRUE, Str(b.out), Str(b.err))
    ELSE Child(JSNum(b.status), FALSE, Str(b.out), Str(b.err))

\* execSync returns stdout on exit status 0 and throws otherwise.
ExecThrows(c) == c.status # JSNum(0)

NoChild == Child(Undefined, FALSE, NoStr, NoStr)

(***************************************************************************)
(* What run() hands its caller: a returned value or a thrown Error.        *)
(***************************************************************************)
NoOutcome == [kind |-> "none", value |-> Undefined, message |-> "", payload |-> Undefined]
Returned(v) == [kind |-> "return", value |-> v, message |-> "", payload |-> Undefined]
\* new Error(msg), with its payload property (undefined unless assigned).
Thrown(msg, payload) ==
    [kind |-> "throw", value |-> Undefined, message |-> msg, payload |-> payload]

NoCategoryMessage ==
    "No category specified. Pass it via the CATEGORY env var or as argv[2].\n"
    \o "Example: node impl.js \"Dining Out\""

PythonNotFoundMessage(sk) ==
    IF sk = "report"
    THEN "Python 3 is not available on PATH. "
         \o "Install Python 3 and ensure it is accessible as 'python3' or 'python'."
    ELSE "Python 3 not found. Create a venv at .venv/ or install Python 3 on PATH."

DefaultErrorMessage == "Script exited with non-zero status"

\* stdout.slice(0, 500), to the lexeme: the longest prefix of whole lexemes
\* within the first RAW_LIMIT characters.
RAW_LIMIT == 500
RECURSIVE SliceText(_, _)
SliceText(ls, room) ==
    IF Len(ls) = 0 \/ Len(LexText(ls[1])) > room THEN <<>>
    ELSE <<ls[1]>> \o SliceText(Tail(ls), room - Len(LexText(ls[1])))

(***************************************************************************)
(* run(), after execSync: the catch block (lines 78-98 of the report       *)
(* wrapper, 102-119 of the transactions wrapper) and the final parse.      *)
(***************************************************************************)
\* The inner try: what reaches `catch (innerErr)`.  JSON.parse may throw a
\* SyntaxError and payload.error a TypeError, neither with a payload; else
\* the wrapped Error is thrown.
InnerThrown(raw) ==
    LET p == JSONParse(raw) IN
    IF ~p.ok \/ PropThrows(p.val) THEN Thrown("", Undefined)
    ELSE Thrown(JSToString(OrElse(GetProp(p.val, "error"),
                                  JSStr(DefaultErrorMessage))),
                p.val)

\* Fallback: surface raw stderr.
GenericFailure(sk, c) ==
    LET stderr == Trim(TextOrEmpty(c.stderr)) IN
    Thrown(ScriptName(sk) \o " failed (exit " \o JSToString(c.status) \o ").\n"
             \o (IF Len(stderr) > 0 THEN Text(stderr) ELSE "No stderr output."),
           Undefined)

\* Mutant: the catch block ignores stdout and always surfaces stderr.
HandleExecErrorStderrOnly(sk, c) == GenericFailure(sk, c)

\* Mutant: the wrapped Error is rethrown whatever its payload is, as a test
\* `"payload" in innerErr` would do.
HandleExecErrorAnyPayload(sk, c) ==
    LET raw == Trim(TextOrEmpty(c.stdout))
        p   == JSONParse(raw)
    IN  IF Len(raw) > 0 /\ p.ok /\ ~PropThrows(p.val)
        THEN InnerThrown(raw)
        ELSE GenericFailure(sk, c)

\* catch (err) { ... }
HandleExecError(sk, c) ==
    LET raw == Trim(TextOrEmpty(c.stdout)) IN
    IF Len(raw) > 0 /\ Truthy(InnerThrown(raw).payload)
    THEN InnerThrown(raw)
    ELSE GenericFailure(sk, c)

\* Mutant: unparseable output of a successful run is reported like a failed run.
ParseOutputAsExecFailure(sk, c) ==
    LET p == JSONParse(Trim(c.stdout.text)) IN
    IF p.ok THEN Returned(p.val) ELSE GenericFailure(sk, c)

\* try { return JSON.parse(stdout.trim()); } catch (_) { throw ... }
ParseOutput(sk, c) ==
    LET p == JSONParse(Trim(c.stdout.text)) IN
    IF p.ok THEN Returned(p.val)
    ELSE Thrown("Failed to parse JSON from " \o ScriptName(sk) \o ".\nRaw output: "
                  \o Text(SliceText(c.stdout.text, RAW_LIMIT)),
                Undefined)

AfterExec(sk, c) ==
    IF ExecThrows(c) THEN HandleExecError(sk, c) ELSE ParseOutput(sk, c)

(***************************************************************************)
(* The command line run() builds.                                          *)
(***************************************************************************)
Quoted(s) == "\"" \o s \o "\""

ReportCommand(py, thr) ==
    JoinText(<<py, Quoted(SCRIPT_PATH("report")), "--json",
               "--threshold", JSToString(thr),
               "--session", Quoted(SESSION_PATH)>>, " ")

TransactionsCommand(py, cat, mon) ==
    JoinText(<<py, Quoted(SCRIPT_PATH("transactions")), "--json",
               "--category", Quoted(JSToString(cat)),
               "--session", Quoted(SESSION_PATH)>>
             \o (IF Truthy(mon) THEN <<"--month", JSToString(mon)>> ELSE <<>>),
             " ")

VersionCommand(cand) == cand \o " --version"

(***************************************************************************)
(* State.                                                                  *)
(*   skill      the wrapper module this process loads                      *)
(*   env, argv  process.env (the variables the module reads), process.argv *)
(*   threshold, category, month                                            *)
(*              the module-level constants (undefined until the module is  *)
(*              loaded, and in the module that does not declare them)      *)
(*   pc         "unloaded", "idle" (loaded, no call in progress), then the *)
(*              position of the call of run(): "venv", "probe", "exec",    *)
(*              "done" (run() has returned or thrown)                      *)
(*   probe      index of the system candidate findPython probes next       *)
(*   venvFound  the venv candidates fs.existsSync reported in this call    *)
(*   python     what findPython returned ("" before)                       *)
(*   command    the script command line built in this call ("" before)     *)
(*   spawned    the commands this call has run with execSync, in order     *)
(*   probed     what each version probe of this call did, in order         *)
(*   child      the result of the script's execSync                        *)
(*   outcome    what run() handed its caller                               *)
(*                                                                         *)
(* and, for the two computations of the Python scripts:                    *)
(*   categories, limit   the budget summary and threshold given to analyze *)
(*   report              what analyze made of them                         *)
(*   universe, requested the category universe and the requested name      *)
(*   resolution          what the resolution made of them                  *)
(***************************************************************************)
VARIABLES skill, env, argv, threshold, category, month,
          pc, probe, venvFound, python, command, spawned, probed, child, outcome,
          categories, limit, report, universe, requested, resolution

analyzerVars == <<categories, limit, report>>
resolverVars == <<universe, requested, resolution>>
scriptVars   == <<analyzerVars, resolverVars>>

wrapperVars == <<skill, env, argv, threshold, category, month,
                 pc, probe, venvFound, python, command, spawned, probed, child,
                 outcome>>

processVars == <<skill, env, argv>>
moduleVars  == <<threshold, category, month>>
callVars    == <<probe, venvFound, python, command, spawned, probed, child, outcome>>

CallReset ==
    /\ probe = 1
    /\ venvFound = {}
    /\ python = ""
    /\ command = ""
    /\ spawned = <<>>
    /\ probed = <<>>
    /\ child = NoChild
    /\ outcome = NoOutcome

WrapperInit ==
    /\ skill \in Skills
    /\ env \in {e \in [EnvNames(skill) -> UNION {EnvChoices(n) : n \in EnvNames(skill)}] :
                  \A n \in EnvNames(skill) : e[n] \in EnvChoices(n)}
    /\ argv \in Argvs(skill)
    /\ threshold = Undefined
    /\ category = Undefined
    /\ month = Undefined
    /\ pc = "unloaded"
    /\ CallReset

\* require("impl.js"): the module's top-level constants are evaluated once.
Load ==
    /\ pc = "unloaded"
    /\ pc' = "idle"
    /\ IF skill = "report"
       THEN /\ threshold' = ResolveThreshold(env, argv)
            /\ UNCHANGED <<category, month>>
       ELSE /\ category' = ResolveCategory(env, argv)
            /\ month' = ResolveMonth(env, argv)
            /\ UNCHANGED threshold
    /\ UNCHANGED <<processVars, callVars, scriptVars>>

\* The host changes an environment variable between calls.
SetEnv ==
    /\ pc = "idle"
    /\ \E n \in EnvNames(skill) : \E v \in EnvChoices(n) :
          /\ v # env[n]
          /\ env' = [env EXCEPT ![n] = v]
    /\ UNCHANGED <<skill, argv, moduleVars, pc, callVars, scriptVars>>

\* The host changes process.argv between calls.
SetArgv ==
    /\ pc = "idle"
    /\ \E av \in Argvs(skill) : av # argv /\ argv' = av
    /\ UNCHANGED <<skill, env, moduleVars, pc, callVars, scriptVars>>

\* Mutant: the category is not checked before the interpreter is looked for.
CategoryMissingUnchecked(sk, cat) == FALSE

\* if (!category) throw ... : only the transactions wrapper has this check.
CategoryMissing(sk, cat) == sk = "transactions" /\ ~Truthy(cat)

\* Mutant: run() resolves the parameters again on every call.
CommandOfReread(sk, py) ==
    IF sk = "report" THEN ReportCommand(py, ResolveThreshold(env, argv))
    ELSE TransactionsCommand(py, ResolveCategory(env, argv), ResolveMonth(env, argv))

\* The parameters run() puts on the command line: the module constants.
CommandOf(sk, py) ==
    IF sk = "report" THEN ReportCommand(py, threshold)
    ELSE TransactionsCommand(py, category, month)

\* Mutant: the script is run a second time.
SpawnScriptRetry(log, cmd) == Append(Append(log, cmd), cmd)

\* One execSync of the script: the command joins the call's log.
SpawnScript(log, cmd) == Append(log, cmd)

\* run() is called.
Run ==
    /\ pc = "idle"
    /\ IF CategoryMissing(skill, category)
       THEN /\ outcome' = Thrown(NoCategoryMessage, Undefined)
            /\ pc' = "done"
       ELSE /\ pc' = IF skill = "transactions" THEN "venv" ELSE "probe"
            /\ UNCHANGED outcome
    /\ UNCHANGED <<processVars, moduleVars, probe, venvFound, python, command,
                   spawned, probed, child, scriptVars>>

\* findPython of the transactions wrapper, first loop: the project venv.
FindPythonVenv ==
    /\ pc = "venv"
    /\ \E found \in SUBSET {VenvCandidates[i] : i \in 1..Len(VenvCandidates)} :
          /\ venvFound' = found
          /\ LET c == FirstExisting(VenvCandidates, found, 1) IN
             IF c # "" THEN python' = c /\ pc' = "exec"
             ELSE python' = python /\ pc' = "probe"
    /\ UNCHANGED <<processVars, moduleVars, probe, command, spawned, probed, child,
                   outcome, scriptVars>>

\* findPython, one turn of the loop over the system candidates.
Probe ==
    /\ pc = "probe"
    /\ \E r \in ProbeResults :
          LET cand == SystemCandidates[probe] IN
          /\ spawned' = Append(spawned, VersionCommand(cand))
          /\ probed' = Append(probed, r)
          /\ IF ProbeAccepts(r)
             THEN /\ python' = cand
                  /\ pc' = "exec"
                  /\ UNCHANGED <<probe, outcome>>
             ELSE IF probe < Len(SystemCandidates)
             THEN /\ probe' = probe + 1
                  /\ UNCHANGED <<pc, python, outcome>>
             ELSE /\ outcome' = Thrown(PythonNotFoundMessage(skill), Undefined)
                  /\ pc' = "done"
                  /\ UNCHANGED <<probe, python>>
    /\ UNCHANGED <<processVars, moduleVars, venvFound, command, child, scriptVars>>

\* The rest of run(): build the command, execSync it, handle its result.
Exec ==
    /\ pc = "exec"
    /\ \E b \in Behaviours :
          LET cmd == CommandOf(skill, python)
              c   == ExecSync(b, TIMEOUT_MS)
          IN  /\ command' = cmd
              /\ spawned' = SpawnScript(spawned, cmd)
              /\ child' = c
              /\ outcome' = AfterExec(skill, c)
    /\ pc' = "done"
    /\ UNCHANGED <<processVars, moduleVars, probe, venvFound, python, probed,
                   scriptVars>>

\* The caller has the outcome; the module stays loaded for the next call.
Finish ==
    /\ pc = "done"
    /\ pc' = "idle"
    /\ probe' = 1
    /\ venvFound' = {}
    /\ python' = ""
    /\ command' = ""
    /\ spawned' = <<>>
    /\ probed' = <<>>
    /\ child' = NoChild
    /\ outcome' = NoOutcome
    /\ UNCHANGED <<processVars, moduleVars, scriptVars>>

WrapperNext == Load \/ SetEnv \/ SetArgv \/ Run \/ FindPythonVenv \/ Probe \/ Exec \/ Finish

(***************************************************************************)
(* over_budget_report.py: the over-budget analysis (BudgetOverageAnalyzer).*)
(* Amounts are integer cents.                                              *)
(***************************************************************************)
Overage(c) == c.actual - c.planned

\* Mutant: a category whose overage equals the threshold is kept.
ReportableAtLeast(c, thr) == Overage(c) >= thr

\* Filter: keep categories where actual - planned > threshold, strictly.
Reportable(c, thr) == Overage(c) > thr

Entry(c) ==
    [category |-> c.name, group |-> c.group, planned |-> c.planned,
     actual |-> c.actual, overage |-> Overage(c)]

RECURSIVE KeepReportable(_, _)
KeepReportable(cs, thr) ==
    IF Len(cs) = 0 THEN <<>>
    ELSE (IF Reportable(cs[1], thr) THEN <<Entry(cs[1])>> ELSE <<>>)
         \o KeepReportable(Tail(cs), thr)

RECURSIVE InsertByOverage(_, _)
\* Insert e after every entry whose overage is at least its own: entries of
\* equal overage keep the provider's order.
InsertByOverage(es, e) ==
    IF Len(es) = 0 THEN <<e>>
    ELSE IF es[1].overage >= e.overage THEN <<es[1]>> \o InsertByOverage(Tail(es), e)
    ELSE <<e>> \o es

RECURSIVE SortByOverage(_)
\* Sort: descending by overage.
SortByOverage(es) ==
    IF Len(es) = 0 THEN <<>>
    ELSE InsertByOverage(SortByOverage(SubSeq(es, 1, Len(es) - 1)), es[Len(es)])

RECURSIVE SumOverage(_)
SumOverage(es) == IF Len(es) = 0 THEN 0 ELSE es[1].overage + SumOverage(Tail(es))

analyze(cs, thr) ==
    LET entries == SortByOverage(KeepReportable(cs, thr)) IN
    [made |-> TRUE, threshold |-> thr, over_budget |-> entries,
     total_overage |-> SumOverage(entries)]

NoReport == [made |-> FALSE, threshold |-> 0, over_budget |-> <<>>, total_overage |-> 0]

\* The inputs the analysis is checked on.
MaxCategories == 2
CategoryNames == <<"Dining Out", "Rent", "Entertainment", "Natural Gas">>
PlannedAmounts == {0, 20000}
ActualAmounts == {0, 20000, 25000, 31245}
Thresholds == {0, 5000, 11245}
BudgetLists ==
    UNION {
      {[i \in 1..n |-> [name |-> CategoryNames[i], group |-> "Group",
                        planned |-> pa[i][1], actual |-> pa[i][2]]] :
          pa \in [1..n -> PlannedAmounts \X ActualAmounts]}
      : n \in 0..MaxCategories }

(***************************************************************************)
(* category_transactions.py: category resolution                           *)
(* (CategoryTransactionFilter).  A category name is a sequence of          *)
(* characters.                                                             *)
(***************************************************************************)
UpperCase == <<"A","B","C","D","E","F","G","H","I","J","K","L","M",
               "N","O","P","Q","R","S","T","U","V","W","X","Y","Z">>
LowerCase == <<"a","b","c","d","e","f","g","h","i","j","k","l","m",
               "n","o","p","q","r","s","t","u","v","w","x","y","z">>

\* Mutant: characters are compared as they are, case included.
LowerCharIdentity(ch) == ch

LowerChar(ch) ==
    IF \E i \in DOMAIN UpperCase : UpperCase[i] = ch
    THEN LowerCase[CHOOSE i \in DOMAIN UpperCase : UpperCase[i] = ch]
    ELSE ch

\* str.lower()
Lower(name) == [i \in DOMAIN name |-> LowerChar(name[i])]

RECURSIVE Dedup(_, _)
\* The distinct names, in original casing, in order of first appearance.
Dedup(names, seen) ==
    IF Len(names) = 0 THEN <<>>
    ELSE IF names[1] \in seen THEN Dedup(Tail(names), seen)
    ELSE <<names[1]>> \o Dedup(Tail(names), seen \cup {names[1]})

RECURSIVE FirstMatch(_, _, _)
\* Index of the first name equal to the requested one, case ignored; 0 if none.
FirstMatch(names, wanted, i) ==
    IF i > Len(names) THEN 0
    ELSE IF Lower(names[i]) = Lower(wanted) THEN i
    ELSE FirstMatch(names, wanted, i + 1)

resolve(allCategories, requestedCategory) ==
    LET names == Dedup(allCategories, {})
        m     == FirstMatch(names, requestedCategory, 1)
    IN  IF m # 0
        THEN [made |-> TRUE, code |-> "OK", category |-> names[m],
              available_categories |-> <<>>]
        ELSE [made |-> TRUE, code |-> "CATEGORY_NOT_FOUND", category |-> <<>>,
              available_categories |-> names]

NoResolution == [made |-> FALSE, code |-> "", category |-> <<>>,
                 available_categories |-> <<>>]

\* The inputs the resolution is checked on.
MaxUniverse == 2
KnownNames ==
    { <<"D","i","n","i","n","g"," ","O","u","t">>,
      <<"d","i","n","i","n","g"," ","o","u","t">>,
      <<"D","I","N","I","N","G"," ","O","U","T">>,
      <<"R","e","n","t">>,
      <<"r","E","N","T">>,
      <<"G","r","o","c","e","r","i","e","s">> }
Universes == UNION {[1..n -> KnownNames] : n \in 0..MaxUniverse}

AnalyzerOff == categories = <<>> /\ limit = 0 /\ report = NoReport
ResolverOff == universe = <<>> /\ requested = <<>> /\ resolution = NoResolution

\* A process that has loaded nothing yet and does nothing.
WrapperOff ==
    /\ skill = "report"
    /\ env = [n \in EnvNames("report") |-> Undefined]
    /\ argv = <<"node", "impl.js">>
    /\ threshold = Undefined
    /\ category = Undefined
    /\ month = Undefined
    /\ pc = "unloaded"
    /\ CallReset

Analyze ==
    /\ ~report.made
    /\ report' = analyze(categories, limit)
    /\ UNCHANGED <<categories, limit, resolverVars, wrapperVars>>

Resolve ==
    /\ ~resolution.made
    /\ resolution' = resolve(universe, requested)
    /\ UNCHANGED <<universe, requested, analyzerVars, wrapperVars>>

vars == <<wrapperVars, analyzerVars, resolverVars>>

\* The wrappers.
Init == WrapperInit /\ AnalyzerOff /\ ResolverOff
Next == WrapperNext
Spec == Init /\ [][Next]_vars

\* The over-budget analysis, on every input within the bounds.
AnalyzeInit ==
    /\ WrapperOff
    /\ ResolverOff
    /\ categories \in BudgetLists
    /\ limit \in Thresholds
    /\ report = NoReport
SpecAnalyze == AnalyzeInit /\ [][Analyze]_vars

\* The category resolution, on every input within the bounds.
ResolveInit ==
    /\ WrapperOff
    /\ AnalyzerOff
    /\ universe \in Universes
    /\ requested \in KnownNames
    /\ resolution = NoResolution
SpecResolve == ResolveInit /\ [][Resolve]_vars

(***************************************************************************)
(* Vocabulary of the properties below.                                     *)
(***************************************************************************)
ErrorCodes ==
    {"SESSION_ERROR", "SESSION_EXPIRED", "API_ERROR", "DEPENDENCY_MISSING",
     "CATEGORY_NOT_FOUND"}

\* The call has ended and the script was run in it.
ScriptRan == pc = "done" /\ child # NoChild

NonZeroExit == ScriptRan /\ child.status.t = "num" /\ child.status.n # 0
ZeroExit    == ScriptRan /\ child.status = JSNum(0)
TimedOut    == ScriptRan /\ child.timedOut

\* What the script wrote to stdout, trimmed, read as JSON.
StdoutJSON == JSONParse(Trim(child.stdout.text))
StdoutIsObject == child.stdout.def /\ StdoutJSON.ok /\ StdoutJSON.val.t = "obj"

\* The outcome is a structured error response {error, code}.
IsStructuredError(o) ==
    /\ o.kind = "throw"
    /\ o.payload.t = "obj"
    /\ GetProp(o.payload, "error").t = "str"
    /\ GetProp(o.payload, "code") \in {JSStr(c) : c \in ErrorCodes}

\* The version probes and the script runs among the commands of this call.
ScriptSpawns == {i \in DOMAIN spawned :
                   \A k \in DOMAIN SystemCandidates :
                       spawned[i] # VersionCommand(SystemCandidates[k])}

ParseFailureMessage ==
    "Failed to parse JSON from " \o ScriptName(skill) \o ".\nRaw output: "
    \o Text(child.stdout.text)

\* Every outcome run() can have after a child that made execSync throw.
ExecFailureOutcomes ==
    {HandleExecError(skill, ExecSync(b, TIMEOUT_MS)) :
        b \in {bb \in Behaviours : ExecThrows(ExecSync(bb, TIMEOUT_MS))}}

(***************************************************************************)
(* C1.  Dual-channel contract: when the script ends with a non-zero exit   *)
(* status and its stdout holds a JSON object, run() throws an Error whose  *)
(* payload is exactly the parsed object and whose message is the object's  *)
(* error field, or the fixed default text when that field is absent or     *)
(* empty; it is never the generic stderr-based failure.                    *)
(***************************************************************************)
C1_StructuredErrorSurvives ==
    (NonZeroExit /\ StdoutIsObject) =>
        LET obj == StdoutJSON.val
            e   == GetProp(obj, "error")
        IN  /\ outcome.kind = "throw"
            /\ outcome.payload = obj
            /\ (e.t = "str" /\ e.s # "" => outcome.message = e.s)
            /\ (e = Undefined \/ e = JSStr("") =>
                    outcome.message = DefaultErrorMessage)
            /\ outcome # GenericFailure(skill, child)

\* A non-zero exit whose stdout is the CATEGORY_NOT_FOUND object while stderr
\* is not empty: the payload, available_categories included, reaches the caller.
C1_Witness ==
    /\ NonZeroExit
    /\ StdoutIsObject
    /\ Len(Trim(child.stderr.text)) > 0
    /\ GetProp(outcome.payload, "code") = JSStr("CATEGORY_NOT_FOUND")
    /\ GetProp(outcome.payload, "available_categories")
         = JSArr(<<JSStr("Dining Out"), JSStr("Rent")>>)
    /\ outcome.message = "Category not found"

(***************************************************************************)
(* C2.  Every failure of run() -- interpreter not found, missing category, *)
(* timeout, non-zero exit with empty or non-JSON stdout, exit 0 with       *)
(* unparseable stdout -- reaches the caller as the structured error        *)
(* {error, code} with one of the five codes.                               *)
(***************************************************************************)
C2_ListedFailure ==
    /\ pc = "done"
    /\ outcome.kind = "throw"
    /\ \/ child = NoChild
       \/ TimedOut
       \/ NonZeroExit /\ ~StdoutJSON.ok
       \/ ZeroExit /\ ~StdoutJSON.ok

C2_EveryFailureIsStructured == C2_ListedFailure => IsStructuredError(outcome)

(***************************************************************************)
(* C3.  When the 30-second timeout kills the script, run() ends with a     *)
(* failure that is recognisable as an API_ERROR-class failure.             *)
(***************************************************************************)
C3_TimeoutIsApiError ==
    TimedOut =>
        /\ outcome.kind = "throw"
        /\ GetProp(outcome.payload, "code") = JSStr("API_ERROR")

(***************************************************************************)
(* C4.  Parameter precedence at load.  As claimed: positional argument,    *)
(* then environment variable, then default.  As the code has it: the       *)
(* environment variable when it is set and not empty, otherwise the        *)
(* positional argument when it is given and not empty, otherwise the       *)
(* default ("50" for threshold, "" for category and month).                *)
(***************************************************************************)
NonEmpty(v) == v.t = "str" /\ v.s # ""
FirstOf(a, b, d) == IF NonEmpty(a) THEN a.s ELSE IF NonEmpty(b) THEN b.s ELSE d

LoadStep == pc = "unloaded" /\ pc' = "idle"

\* The original claim: argument first.
C4_ArgumentBeforeEnvironment ==
    [][LoadStep =>
         IF skill = "report"
         THEN threshold'.s = FirstOf(ArgvAt(argv, 2), env["THRESHOLD"], "50")
         ELSE /\ category'.s = FirstOf(ArgvAt(argv, 2), env["CATEGORY"], "")
              /\ month'.s = FirstOf(ArgvAt(argv, 3), env["MONTH"], "")]_vars

\* The amended claim: environment first.
C4_EnvironmentBeforeArgument ==
    [][LoadStep =>
         IF skill = "report"
         THEN threshold' = JSStr(FirstOf(env["THRESHOLD"], ArgvAt(argv, 2), "50"))
         ELSE /\ category' = JSStr(FirstOf(env["CATEGORY"], ArgvAt(argv, 2), ""))
              /\ month' = JSStr(FirstOf(env["MONTH"], ArgvAt(argv, 3), ""))]_vars

\* Loaded with both MONTH and argv[3] given, and CATEGORY empty but argv[2]
\* given: month is the environment's, category the argument's.
C4_Witness ==
    /\ skill = "transactions"
    /\ pc = "idle"
    /\ env["CATEGORY"] = JSStr("")
    /\ env["MONTH"] = JSStr(EnvValue("MONTH"))
    /\ ArgvAt(argv, 2) = JSStr(ArgValue("transactions", 1))
    /\ ArgvAt(argv, 3) = JSStr(ArgValue("transactions", 2))
    /\ category = JSStr(ArgValue("transactions", 1))
    /\ month = JSStr(EnvValue("MONTH"))

(***************************************************************************)
(* C5.  The transactions wrapper with an empty resolved category: run()    *)
(* throws the 'No category specified' error before any subprocess is       *)
(* started -- no version probe, no script.                                 *)
(***************************************************************************)
C5_NoCategoryNoSubprocess ==
    (skill = "transactions" /\ ~Truthy(category) /\ pc \notin {"unloaded", "idle"}) =>
        /\ pc = "done"
        /\ outcome = Thrown(NoCategoryMessage, Undefined)
        /\ spawned = <<>>
        /\ venvFound = {}
        /\ python = ""
        /\ child = NoChild

C5_Witness ==
    /\ skill = "transactions"
    /\ category = JSStr("")
    /\ pc = "done"
    /\ outcome.kind = "throw"
    /\ outcome.message = NoCategoryMessage

(***************************************************************************)
(* C6.  When the script exits 0, run() returns exactly the value parsed    *)
(* from its trimmed stdout when that is valid JSON; otherwise it throws    *)
(* the 'Failed to parse JSON' error, which has no payload, differs from    *)
(* every failure after a non-zero exit, and is thrown after one run of     *)
(* the script.                                                             *)
(***************************************************************************)
C6_ParseOrFault ==
    ZeroExit =>
        IF StdoutJSON.ok
        THEN outcome = Returned(StdoutJSON.val)
        ELSE /\ outcome = Thrown(ParseFailureMessage, Undefined)
             /\ outcome \notin ExecFailureOutcomes
             /\ Cardinality(ScriptSpawns) = 1

\* Exit 0 with a truncated object on stdout.
C6_Witness ==
    /\ ZeroExit
    /\ child.stdout.text = <<P("{"), S("error"), P(":")>>
    /\ outcome.kind = "throw"
    /\ outcome.payload = Undefined

(***************************************************************************)
(* C7.  The over-budget report never includes an entry whose overage is    *)
(* at most the threshold: a category is reported exactly when              *)
(* actual - planned > threshold, so an overage equal to the threshold is   *)
(* left out.                                                               *)
(***************************************************************************)
Reported(name) ==
    \E i \in DOMAIN report.over_budget : report.over_budget[i].category = name

SameLetter(a, b) ==
    a = b \/ \E k \in DOMAIN UpperCase : {a, b} = {UpperCase[k], LowerCase[k]}
CaseVariant(x, y) ==
    Len(x) = Len(y) /\ \A i \in DOMAIN x : SameLetter(x[i], y[i])
Elements(xs) == {xs[i] : i \in DOMAIN xs}

C8_ResolutionIgnoresCase ==
    resolution.made =>
        IF \E i \in DOMAIN universe : CaseVariant(universe[i], requested)
        THEN /\ resolution.code = "OK"
             /\ resolution.category \in Elements(universe)
             /\ CaseVariant(resolution.category, requested)
        ELSE /\ resolution.code = "CATEGORY_NOT_FOUND"
             /\ Elements(resolution.available_categories) = Elements(universe)
             /\ Cardinality(Elements(resolution.available_categories))
                   = Len(resolution.available_categories)

\* A request resolved to a stored name of another casing.
C8_Witness ==
    /\ resolution.made
    /\ resolution.code = "OK"
    /\ resolution.category # requested
    /\ requested \notin Elements(universe)

(***************************************************************************)
(* C9.  No retries: in one call of run() the script is spawned at most     *)
(* once whatever its outcome, only after findPython has returned an        *)
(* interpreter, and never when findPython throws.                          *)
(***************************************************************************)
C9_ScriptSpawnedAtMostOnce ==
    /\ Cardinality(ScriptSpawns) <= 1
    /\ ScriptSpawns # {} =>
          /\ python # ""
          /\ ScriptSpawns = {Len(spawned)}
          /\ pc = "done"
    /\ (pc = "done" /\ python = "") => ScriptSpawns = {}

\* The script timed out after a failed and a successful probe, and the call
\* ended with that one run.
C9_Witness ==
    /\ TimedOut
    /\ python = "python"
    /\ Len(spawned) = 3
    /\ Cardinality(ScriptSpawns) = 1
    /\ outcome.kind = "throw"

(***************************************************************************)
(* C10.  The parameters are resolved when the module is loaded and never   *)
(* again: the module constants never change after the load, and every      *)
(* command run() builds carries them, whatever process.env and             *)
(* process.argv have become.                                               *)
(***************************************************************************)
C10_ResolvedOnceAtLoad ==
    /\ [][LoadStep =>
            IF skill = "report"
            THEN threshold' = ResolveThreshold(env, argv)
            ELSE /\ category' = ResolveCategory(env, argv)
                 /\ month' = ResolveMonth(env, argv)]_vars
    /\ [][pc # "unloaded" => moduleVars' = moduleVars]_vars
    /\ [](command # "" =>
            command = IF skill = "report"
                      THEN ReportCommand(python, threshold)
                      ELSE TransactionsCommand(python, category, month))

\* A call that ran the script after THRESHOLD and argv[2] had changed so
\* that resolving again would give another threshold.
C10_Witness ==
    /\ skill = "report"
    /\ pc = "done"
    /\ command # ""
    /\ threshold = JSStr("50")
    /\ ResolveThreshold(env, argv) = JSStr(EnvValue("THRESHOLD"))

(***************************************************************************)
(* C11.  Interpreter selection of the transactions wrapper.  Once          *)
(* findPython is over: if a venv candidate exists, the interpreter is      *)
(* .venv/bin/python when that exists and .venv/Scripts/python otherwise,   *)
(* and no version probe was run; if none exists, python3 and then python   *)
(* were probed in that order, the interpreter is the first whose output    *)
(* contains "Python 3", and no candidate after it was probed; the          *)
(* "Python 3 not found" error is thrown exactly when no venv candidate     *)
(* exists and both probes failed to give such output.                      *)
(***************************************************************************)
\* findPython of the transactions wrapper has returned or thrown.
FindPythonOver ==
    skill = "transactions" /\ pc \in {"exec", "done"} /\ Truthy(category)

PythonNotFound == outcome = Thrown(PythonNotFoundMessage(skill), Undefined)

\* The probe returned text with "Python 3" in it.
SaysPython3(r) ==
    /\ ~r.threw
    /\ \E i \in 1..Len(r.out) :
          /\ i + 7 <= Len(r.out)
          /\ <<r.out[i], r.out[i + 1], r.out[i + 2], r.out[i + 3], r.out[i + 4],
               r.out[i + 5], r.out[i + 6], r.out[i + 7]>>
             = <<"P", "y", "t", "h", "o", "n", " ", "3">>

\* The version commands of this call are those of the first n system
\* candidates, in order.
ProbedInOrder(n) ==
    /\ n <= Len(SystemCandidates)
    /\ DOMAIN spawned \ ScriptSpawns = 1..n
    /\ \A i \in 1..n : spawned[i] = SystemCandidates[i] \o " --version"

C11_SelectionOrder ==
    FindPythonOver =>
        LET bin     == PROJECT_ROOT \o "/.venv/bin/python"
            scripts == PROJECT_ROOT \o "/.venv/Scripts/python"
            n       == Len(probed)
        IN  /\ venvFound \subseteq {bin, scripts}
            /\ bin \in venvFound =>
                   python = bin /\ n = 0 /\ ProbedInOrder(0)
            /\ (bin \notin venvFound /\ scripts \in venvFound) =>
                   python = scripts /\ n = 0 /\ ProbedInOrder(0)
            /\ venvFound = {} =>
                   /\ n \in {1, 2}
                   /\ ProbedInOrder(n)
                   /\ \A i \in 1..(n - 1) : ~SaysPython3(probed[i])
                   /\ IF SaysPython3(probed[n])
                      THEN python = SystemCandidates[n]
                      ELSE n = 2 /\ python = ""
            /\ PythonNotFound <=>
                   /\ venvFound = {}
                   /\ n = 2
                   /\ ~SaysPython3(probed[1])
                   /\ ~SaysPython3(probed[2])
            /\ python \in {"python3", "python"} => venvFound = {}

\* Both venv candidates exist and the script was run with .venv/bin/python
\* without any version probe.
C11_Witness ==
    /\ FindPythonOver
    /\ Cardinality(venvFound) = 2
    /\ python = PROJECT_ROOT \o "/.venv/bin/python"
    /\ ScriptRan
    /\ Len(spawned) = 1

(***************************************************************************)
(* C12.  After a non-zero exit run() throws one of two errors.  When the   *)
(* trimmed stdout is not empty and parses as JSON to a truthy value, the   *)
(* error carries that value as its payload, and its message is the         *)
(* value's truthy error field or the default text.  In every other case    *)
(* (empty or whitespace-only stdout, stdout that is not JSON, stdout that  *)
(* parses to null, false, 0 or "") the error is the generic                *)
(* "<script> failed (exit N)" error built from stderr, without a payload:  *)
(* nothing raised while the wrapped error is built takes their place.      *)
(***************************************************************************)
\* The generic error, written out for the child of this call.
GenericMessage ==
    ScriptName(skill) \o " failed (exit " \o ToString(child.status.n) \o ").\n"
    \o (IF child.stderr.def /\ Len(Trim(child.stderr.text)) > 0
        THEN Text(Trim(child.stderr.text))
        ELSE "No stderr output.")

\* The trimmed stdout of this call's child ("" when there is none).
RawStdout == IF child.stdout.def THEN Trim(child.stdout.text) ELSE <<>>

\* JSON's falsy values: null, false, 0 and the empty string.
Falsy(v) == v \in {JSNull, JSFalse, JSNum(0), JSStr("")}

PayloadExpected ==
    /\ Len(RawStdout) > 0
    /\ JSONParse(RawStdout).ok
    /\ ~Falsy(JSONParse(RawStdout).val)

C12_PayloadIffTruthy ==
    NonZeroExit =>
        /\ outcome.kind = "throw"
        /\ outcome.payload # Undefined <=> PayloadExpected
        /\ IF PayloadExpected
           THEN LET v == JSONParse(RawStdout).val
                    e == IF v.t = "obj" THEN GetProp(v, "error") ELSE Undefined
                IN  /\ outcome.payload = v
                    /\ outcome.message =
                          IF Falsy(e) \/ e = Undefined THEN DefaultErrorMessage
                          ELSE JSToString(e)
           ELSE /\ outcome.payload = Undefined
                /\ outcome.message = GenericMessage

\* The script exited non-zero having printed `null`: reading .error of the
\* parsed value raised a TypeError, and run() threw the generic error.
C12_Witness ==
    /\ NonZeroExit
    /\ RawStdout = <<L("null")>>
    /\ outcome.kind = "throw"
    /\ outcome.payload = Undefined
    /\ outcome.message = GenericMessage
====
